---- MODULE Spec2Model ----
(***************************************************************************)
(* A model of audiocraft/utils/utils.py: the masked, chunked cross entropy *)
(* kernel, the top-k / top-p sampling routines over the multinomial draw,  *)
(* the swap_state context manager and DummyPoolExecutor.submit.            *)
(*                                                                         *)
(* Numbers.  Logits are small naturals l standing for the real logit       *)
(* l * ln 2, so that exp(logit) = 2^l is an integer.  A cross entropy      *)
(* value ce is held as the reduced fraction <<n, d>> with ce = ln(n / d);  *)
(* the value 0 is <<1, 1>>.  Probabilities are naturals in units of        *)
(* 1 / Denom.  Arithmetic is exact: floating point rounding is not         *)
(* modelled.  The cast to dtype keeps these exact values.  With            *)
(* logits_soft_clip = c the clipped logit c * tanh(l / c) has no exact     *)
(* value in this arithmetic: the result of such a call is held as the      *)
(* term <<c, g, l_1, ..., l_C>> standing for                                *)
(* ln(sum_i exp(c tanh(l_i / c))) - c tanh(g / c), g the gathered logit.   *)
(* The samplers are modelled on one probability row (torch.topk, sort,     *)
(* cumsum, multinomial and gather all act row by row along the last        *)
(* dimension).                                                             *)
(***************************************************************************)
EXTENDS Integers, Sequences, FiniteSets, TLC

VARIABLES
    ce_pc,      \* cross_entropy: position in the function body
    ce_in,      \* cross_entropy: the arguments (logits, targets, mask)
    ce_flat,    \* cross_entropy: flattened logits / targets / mask, or NoVal
    ce_safe,    \* cross_entropy: safe_targets, or NoVal
    ce_pairs,   \* cross_entropy: the zipped (logits, targets) chunks
    ce_chunks,  \* cross_entropy: ce_chunks, the per chunk results
    ce_out,     \* cross_entropy: the returned tensor, or NoVal
    ce_err,     \* cross_entropy: the exception raised, or "none"
    sm_pc,      \* sample_top_k / sample_top_p: position in the function body
    sm_in,      \* sampling: the arguments (op, probs, k or p)
    sm_sel,     \* sampling: values and indices from torch.topk / torch.sort
    sm_w,       \* sampling: the weights handed to multinomial (and the mask)
    sm_draw,    \* sampling: the local index multinomial drew, or NoVal
    sm_out,     \* sampling: the returned token, or NoVal
    sm_err,     \* sampling: the exception raised, or "none"
    sw_pc,      \* swap_state: position in the context manager
    sw_heap,    \* swap_state: tensor storage, address -> value
    sw_model,   \* swap_state: the model's tensors, name -> address
    sw_arg,     \* swap_state: the state argument and the strict keyword
    sw_old,     \* swap_state: old_state, name -> address, or NoVal
    sw_entry,   \* swap_state: the model's values on entry (history)
    sw_steps,   \* swap_state: number of in-place writes the body has made
    sw_exc,     \* swap_state: the exception in flight, or "none"
    pl_pc,      \* executor: position in get_pool_executor / submit
    pl_kind,    \* executor: the kind of executor get_pool_executor returned
    pl_call,    \* executor: what the submitted func does when called
    pl_future,  \* executor: the Future that submit is building, or NoVal
    pl_log      \* executor: the outcome of every submit so far

ceVars ==
    <<ce_pc, ce_in, ce_flat, ce_safe, ce_pairs, ce_chunks, ce_out, ce_err>>

smVars == <<sm_pc, sm_in, sm_sel, sm_w, sm_draw, sm_out, sm_err>>

swVars ==
    <<sw_pc, sw_heap, sw_model, sw_arg, sw_old, sw_entry, sw_steps, sw_exc>>

plVars == <<pl_pc, pl_kind, pl_call, pl_future, pl_log>>

vars == <<ceVars, smVars, swVars, plVars>>

NoVal == "none"

(***************************************************************************)
(* Bounds of the model.                                                    *)
(***************************************************************************)
\* The largest number N = B*K*T of flattened rows of a cross_entropy call.
MaxN == 5

\* The largest logit (in units of ln 2).
MaxLogit == 2

\* The largest number of classes of a probability row handed to the samplers.
MaxClasses == 3

\* Probabilities are multiples of 1 / Denom; so is the threshold p.
Denom == 4

\* Tensor entries of the swap_state model take the values 0..MaxVal.
MaxVal == 1

\* The largest number of in-place writes the body of a swap_state block makes.
MaxBodySteps == 2

\* The largest num_workers handed to get_pool_executor.
MaxWorkers == 1

\* The largest number of submit calls on one executor.
MaxSubmits == 3

(***************************************************************************)
(* Arithmetic helpers.                                                     *)
(***************************************************************************)
Min(a, b) == IF a <= b THEN a ELSE b

RECURSIVE Pow2(_)
Pow2(n) == IF n <= 0 THEN 1 ELSE 2 * Pow2(n - 1)

RECURSIVE GCD(_, _)
GCD(a, b) == IF b = 0 THEN a ELSE GCD(b, a % b)

\* The reduced fraction n / d (d > 0).
Frac(n, d) == LET g == GCD(n, d) IN <<n \div g, d \div g>>

RECURSIVE SeqSum(_)
SeqSum(s) == IF s = <<>> THEN 0 ELSE Head(s) + SeqSum(Tail(s))

RECURSIVE Prod(_)
Prod(s) == IF s = <<>> THEN 1 ELSE Head(s) * Prod(Tail(s))

RECURSIVE Concat(_)
Concat(ss) == IF ss = <<>> THEN <<>> ELSE Head(ss) \o Concat(Tail(ss))

(***************************************************************************)
(* cross_entropy                                                           *)
(***************************************************************************)
\* The classes (the last dimension of logits) of the modelled calls.
Classes == {0, 1}

Card == Cardinality(Classes)

\* torch.chunk(..., 4): the fixed number of chunks.
NumChunks == 4

\* The value 0 of the result: ln(1 / 1).
Zero == <<1, 1>>

\* assert logits.shape[:-1] == targets.shape; assert mask.shape == targets.shape
ShapesOkNoMaskAssert(in) == in.lshape = in.tshape

ShapesOk(in) == in.lshape = in.tshape /\ in.mshape = in.tshape

\* torch.where(mask, targets, zeros(1)): index 0 wherever mask is False.
SafeTargetsUnsanitized(targets, mask) == targets

SafeTargets(targets, mask) ==
    [i \in 1..Len(targets) |-> IF mask[i] THEN targets[i] ELSE 0]

\* Tensor.split(split_size) along dim 0: contiguous pieces, the last one shorter.
TorchSplit(s, size) ==
    LET n == Len(s)
        cnt == (n + size - 1) \div size
    IN  [j \in 1..cnt |-> SubSeq(s, (j - 1) * size + 1, Min(j * size, n))]

\* torch.chunk(s, chunks) along dim 0: split_size = ceil(n / chunks).
TorchChunkFloor(s, chunks) ==
    LET size == IF Len(s) \div chunks = 0 THEN 1 ELSE Len(s) \div chunks
        parts == TorchSplit(s, size)
    IN  SubSeq(parts, 1, Min(chunks, Len(parts)))

TorchChunk(s, chunks) ==
    IF Len(s) = 0 THEN [j \in 1..chunks |-> <<>>]
    ELSE TorchSplit(s, (Len(s) + chunks - 1) \div chunks)

\* zip(a, b): pairs up to the shorter of the two.
Zip(a, b) == [j \in 1..Min(Len(a), Len(b)) |-> <<a[j], b[j]>>]

\* logits_soft_clip = None (the default of line 93).
ClipNone == 0

\* The clipping value the docstring recommends (line 105).
ClipRecommended == 30

\* logits_chunk.to(dtype): the working dtype holds every logit value exactly.
ToDtype(row) == [c \in 1..Len(row) |-> row[c]]

\* torch.logsumexp(row): held as the integer S with log_partition = ln S.
SumExp(row) == SeqSum([c \in 1..Len(row) |-> Pow2(row[c])])

\* gather(-1, t) on one row raises for an index outside [0, classes).
GatherOk(row, t) == t >= 0 /\ t < Len(row)

\* Lines 126-132 on one row: without clipping, log_partition - gathered logit
\* is ln(S) - l_t ln 2 = ln(S / 2^l_t); with logits_soft_clip = clip, the term
\* over the clipped logits clip * tanh(l / clip).
RowCE(row, t, clip) ==
    IF clip = ClipNone
    THEN Frac(SumExp(row), Pow2(row[t + 1]))
    ELSE <<clip, row[t + 1]>> \o row

\* One loop iteration: the [m, 1] tensor appended to ce_chunks.
ChunkOk(lc, tc) == \A r \in 1..Len(lc) : r <= Len(tc) /\ GatherOk(lc[r], tc[r])

ChunkCE(lc, tc, clip) ==
    [r \in 1..Len(lc) |-> <<RowCE(ToDtype(lc[r]), tc[r], clip)>>]

\* The final torch.where(mask, ce, zeros(1)).
MaskedCE(ce, mask) == [i \in 1..Len(ce) |-> IF mask[i] THEN ce[i] ELSE Zero]

\* Shapes [B, K, T] of the modelled calls.
Shapes ==
    {s \in [1..3 -> 1..MaxN] : s[1] <= 2 /\ s[2] <= 2 /\ Prod(s) <= MaxN}

\* Logit rows used to fill logits tensors.
RowPool ==
    [k \in 1..3 |-> [c \in 1..Card |-> ((k - 1) * c) % (MaxLogit + 1)]]

\* A logits tensor of n rows: the pool's rows in rotation, starting at r.
LogitsFill(n, r) == [i \in 1..n |-> RowPool[((i + r) % Len(RowPool)) + 1]]

\* Target values: the classes 0..Card-1 and the out-of-range value Card.
TargetVals == 0..Card

\* Values of the logits_soft_clip argument.
Clips == {ClipNone, ClipRecommended}

CEInit ==
    /\ ce_pc = "call"
    /\ \E s \in Shapes, r \in 0..1, clip \in Clips :
         \/ \E t \in [1..Prod(s) -> TargetVals], m \in [1..Prod(s) -> BOOLEAN] :
              ce_in = [lshape |-> s, tshape |-> s, mshape |-> s,
                       logits |-> LogitsFill(Prod(s), r), targets |-> t,
                       mask |-> m, clip |-> clip]
         \/ \E ls \in Shapes, ms \in Shapes :
              /\ ~(ls = s /\ ms = s)
              /\ ce_in = [lshape |-> ls, tshape |-> s, mshape |-> ms,
                          logits |-> LogitsFill(Prod(ls), r),
                          targets |-> [i \in 1..Prod(s) |-> 0],
                          mask |-> [i \in 1..Prod(ms) |-> TRUE],
                          clip |-> clip]
    /\ ce_flat = NoVal
    /\ ce_safe = NoVal
    /\ ce_pairs = <<>>
    /\ ce_chunks = <<>>
    /\ ce_out = NoVal
    /\ ce_err = "none"

\* Lines 109-111: output_shape and the two shape assertions.
CE_AssertShapes ==
    /\ ce_pc = "call"
    /\ IF ShapesOk(ce_in)
       THEN ce_pc' = "flatten" /\ ce_err' = ce_err
       ELSE ce_pc' = "error" /\ ce_err' = "AssertionError"
    /\ UNCHANGED <<ce_in, ce_flat, ce_safe, ce_pairs, ce_chunks, ce_out>>
    /\ UNCHANGED <<smVars, swVars, plVars>>

\* Lines 112-120: view / reshape to [N, C], [N], [N] and safe_targets.
CE_Flatten ==
    /\ ce_pc = "flatten"
    /\ ce_flat' = [logits |-> ce_in.logits, targets |-> ce_in.targets,
                   mask |-> ce_in.mask]
    /\ ce_safe' = SafeTargets(ce_in.targets, ce_in.mask)
    /\ ce_pc' = "split"
    /\ UNCHANGED <<ce_in, ce_pairs, ce_chunks, ce_out, ce_err>>
    /\ UNCHANGED <<smVars, swVars, plVars>>

\* Line 124: zip(torch.chunk(logits, 4), torch.chunk(safe_targets, 4)).
CE_Split ==
    /\ ce_pc = "split"
    /\ ce_pairs' = Zip(TorchChunk(ce_flat.logits, NumChunks),
                       TorchChunk(ce_safe, NumChunks))
    /\ ce_pc' = "loop"
    /\ UNCHANGED <<ce_in, ce_flat, ce_safe, ce_chunks, ce_out, ce_err>>
    /\ UNCHANGED <<smVars, swVars, plVars>>

\* Lines 123-132: one iteration of the loop, on the next chunk pair: cast,
\* clip, logsumexp, gather, append.  gather raises RuntimeError (index out of
\* bounds) for a target outside [0, classes); ce_chunks then holds the chunks
\* of the iterations before.  (On a CUDA device the same error is reported at
\* the next synchronisation; the model raises it where gather is called.)
CE_Loop ==
    /\ ce_pc = "loop"
    /\ LET j == Len(ce_chunks) + 1
       IN  IF ChunkOk(ce_pairs[j][1], ce_pairs[j][2])
           THEN /\ ce_chunks' = Append(ce_chunks,
                       ChunkCE(ce_pairs[j][1], ce_pairs[j][2], ce_in.clip))
                /\ ce_pc' = IF j = Len(ce_pairs) THEN "cat" ELSE "loop"
                /\ ce_err' = ce_err
           ELSE /\ ce_chunks' = ce_chunks
                /\ ce_pc' = "error"
                /\ ce_err' = "RuntimeError"
    /\ UNCHANGED <<ce_in, ce_flat, ce_safe, ce_pairs, ce_out>>
    /\ UNCHANGED <<smVars, swVars, plVars>>

\* Lines 133-136: cat, drop the kept dimension, zero the masked entries, view.
\* torch.where and view raise when the sizes do not fit.
CE_Finish ==
    /\ ce_pc = "cat"
    /\ LET cat == Concat(ce_chunks)
           ce == [i \in 1..Len(cat) |-> cat[i][1]]
       IN  IF Len(ce) = Prod(ce_in.tshape) /\ Len(ce) = Len(ce_flat.mask)
           THEN /\ ce_out' = [shape |-> ce_in.tshape,
                              data |-> MaskedCE(ce, ce_flat.mask)]
                /\ ce_pc' = "done"
                /\ ce_err' = ce_err
           ELSE /\ ce_out' = ce_out
                /\ ce_pc' = "error"
                /\ ce_err' = "RuntimeError"
    /\ UNCHANGED <<ce_in, ce_flat, ce_safe, ce_pairs, ce_chunks>>
    /\ UNCHANGED <<smVars, swVars, plVars>>

CEIdle ==
    /\ ce_pc = "idle"
    /\ ce_in = NoVal
    /\ ce_flat = NoVal
    /\ ce_safe = NoVal
    /\ ce_pairs = <<>>
    /\ ce_chunks = <<>>
    /\ ce_out = NoVal
    /\ ce_err = "none"

(***************************************************************************)
(* multinomial, sample_top_k, sample_top_p                                 *)
(*                                                                         *)
(* A probability row is a sequence over the classes 0..C-1 (class c at     *)
(* position c + 1) of naturals in units of 1 / Denom.  A weight handed to  *)
(* multinomial is a fraction <<n, d>>; NaN is <<0, 0>>.  The order that    *)
(* torch.topk and torch.sort give to equal values is not specified: every  *)
(* order is a possible outcome.  The random draw is a choice among the     *)
(* positions of positive weight.                                           *)
(***************************************************************************)
NaN == <<0, 0>>

IsInjective(f) == \A i, j \in DOMAIN f : f[i] = f[j] => i = j

ClassesOf(probs) == 0..(Len(probs) - 1)

\* torch.topk(probs, k) raises unless 0 <= k <= number of classes.
TopKOk(probs, k) == k >= 0 /\ k <= Len(probs)

\* The index tensors torch.topk(probs, k) may return: k distinct classes, values
\* in descending order, no class left out that is larger than a selected one.
TopKResults(probs, k) ==
    {idx \in [1..k -> ClassesOf(probs)] :
        /\ IsInjective(idx)
        /\ \A j \in 1..(k - 1) : probs[idx[j] + 1] >= probs[idx[j + 1] + 1]
        /\ \A c \in ClassesOf(probs) :
              (\A j \in 1..k : idx[j] # c) =>
                  \A j \in 1..k : probs[c + 1] <= probs[idx[j] + 1]}

\* The permutations torch.sort(probs, descending=True) may return.
SortResults(probs) ==
    {idx \in [1..Len(probs) -> ClassesOf(probs)] :
        /\ IsInjective(idx)
        /\ \A j \in 1..(Len(probs) - 1) : probs[idx[j] + 1] >= probs[idx[j + 1] + 1]}

\* The values selected by an index tensor.
ValuesAt(probs, idx) == [j \in 1..Len(idx) |-> probs[idx[j] + 1]]

\* A row of probabilities as the weights multinomial receives.
AsWeights(vals) == [j \in 1..Len(vals) |-> <<vals[j], Denom>>]

\* multinomial(w, num_samples=1) raises for an empty row (the reshape(-1, 0) of
\* line 153), for a NaN or negative weight, and for a row that sums to zero.
MultinomialOk(w) ==
    /\ Len(w) >= 1
    /\ \A i \in 1..Len(w) : w[i] # NaN /\ w[i][1] >= 0
    /\ \E i \in 1..Len(w) : w[i][1] > 0

\* The local (0-based) positions the draw can return.
MultinomialDraws(w) == {i \in 0..(Len(w) - 1) : w[i + 1][1] > 0}

\* indices.gather(-1, next_token): the class at the drawn local position.
GatherIndexLocal(idx, local) == local

GatherIndex(idx, local) == idx[local + 1]

\* torch.cumsum along the row.
CumSum(v) == [i \in 1..Len(v) |-> SeqSum(SubSeq(v, 1, i))]

\* mask = probs_sum - probs_sort > p, with p = pn / Denom.
TopPMaskInclusive(vals, pn) == [i \in 1..Len(vals) |-> CumSum(vals)[i] > pn]

TopPMaskGeq(vals, pn) ==
    [i \in 1..Len(vals) |-> CumSum(vals)[i] - vals[i] >= pn]

TopPMaskKeepFirst(vals, pn) ==
    [i \in 1..Len(vals) |-> i > 1 /\ CumSum(vals)[i] - vals[i] > pn]

TopPMask(vals, pn) ==
    [i \in 1..Len(vals) |-> CumSum(vals)[i] - vals[i] > pn]

\* probs_sort *= (~mask).float(); probs_sort.div_(probs_sort.sum()): 0 / 0 is NaN.
TopPWeights(vals, mask) ==
    LET w == [i \in 1..Len(vals) |-> IF mask[i] THEN 0 ELSE vals[i]]
        total == SeqSum(w)
    IN  [i \in 1..Len(vals) |-> IF total = 0 THEN NaN ELSE <<w[i], total>>]

\* Probability rows: non-negative, summing to 1.
ProbRows ==
    UNION {{r \in [1..c -> 0..Denom] : SeqSum(r) = Denom} : c \in 1..MaxClasses}

SMInit ==
    /\ sm_pc = "call"
    /\ \E probs \in ProbRows :
         \/ \E k \in (-1)..(MaxClasses + 1) :
              sm_in = [op |-> "top_k", probs |-> probs, param |-> k]
         \/ \E pn \in (-1)..(Denom + 1) :
              sm_in = [op |-> "top_p", probs |-> probs, param |-> pn]
    /\ sm_sel = NoVal
    /\ sm_w = NoVal
    /\ sm_draw = NoVal
    /\ sm_out = NoVal
    /\ sm_err = "none"

SMIdle ==
    /\ sm_pc = "idle"
    /\ sm_in = NoVal
    /\ sm_sel = NoVal
    /\ sm_w = NoVal
    /\ sm_draw = NoVal
    /\ sm_out = NoVal
    /\ sm_err = "none"

\* multinomial(input, num_samples=1): lines 153-157, on the single row w.
Multinomial(w, next) ==
    IF MultinomialOk(w)
    THEN /\ \E d \in MultinomialDraws(w) : sm_draw' = d
         /\ sm_pc' = next
         /\ sm_err' = sm_err
    ELSE /\ sm_draw' = sm_draw
         /\ sm_pc' = "error"
         /\ sm_err' = "RuntimeError"

\* Line 169: probs, indices = torch.topk(probs, k, dim=-1).
SM_TopK ==
    /\ sm_pc = "call" /\ sm_in.op = "top_k"
    /\ IF TopKOk(sm_in.probs, sm_in.param)
       THEN /\ \E idx \in TopKResults(sm_in.probs, sm_in.param) :
                 sm_sel' = [vals |-> ValuesAt(sm_in.probs, idx), idx |-> idx]
            /\ sm_pc' = "k_draw"
            /\ sm_err' = sm_err
       ELSE /\ sm_sel' = sm_sel
            /\ sm_pc' = "error"
            /\ sm_err' = "RuntimeError"
    /\ UNCHANGED <<sm_in, sm_w, sm_draw, sm_out>>
    /\ UNCHANGED <<ceVars, swVars, plVars>>

\* Line 170: next_token = multinomial(probs, num_samples=1).
SM_TopKDraw ==
    /\ sm_pc = "k_draw"
    /\ sm_w' = [mask |-> [j \in 1..Len(sm_sel.vals) |-> FALSE],
                w |-> AsWeights(sm_sel.vals)]
    /\ Multinomial(AsWeights(sm_sel.vals), "k_gather")
    /\ UNCHANGED <<sm_in, sm_sel, sm_out>>
    /\ UNCHANGED <<ceVars, swVars, plVars>>

\* Lines 171-172: next_token = indices.gather(-1, next_token).
SM_TopKGather ==
    /\ sm_pc = "k_gather"
    /\ sm_out' = GatherIndex(sm_sel.idx, sm_draw)
    /\ sm_pc' = "done"
    /\ UNCHANGED <<sm_in, sm_sel, sm_w, sm_draw, sm_err>>
    /\ UNCHANGED <<ceVars, swVars, plVars>>

\* Line 184: probs_sort, probs_idx = torch.sort(probs, dim=-1, descending=True).
SM_Sort ==
    /\ sm_pc = "call" /\ sm_in.op = "top_p"
    /\ \E idx \in SortResults(sm_in.probs) :
         sm_sel' = [vals |-> ValuesAt(sm_in.probs, idx), idx |-> idx]
    /\ sm_pc' = "p_mask"
    /\ UNCHANGED <<sm_in, sm_w, sm_draw, sm_out, sm_err>>
    /\ UNCHANGED <<ceVars, swVars, plVars>>

\* Lines 185-188: cumsum, mask, zero the masked entries, renormalise.
SM_Mask ==
    /\ sm_pc = "p_mask"
    /\ LET mask == TopPMask(sm_sel.vals, sm_in.param)
       IN  sm_w' = [mask |-> mask, w |-> TopPWeights(sm_sel.vals, mask)]
    /\ sm_pc' = "p_draw"
    /\ UNCHANGED <<sm_in, sm_sel, sm_draw, sm_out, sm_err>>
    /\ UNCHANGED <<ceVars, swVars, plVars>>

\* Line 189: next_token = multinomial(probs_sort, num_samples=1).
SM_TopPDraw ==
    /\ sm_pc = "p_draw"
    /\ Multinomial(sm_w.w, "p_gather")
    /\ UNCHANGED <<sm_in, sm_sel, sm_w, sm_out>>
    /\ UNCHANGED <<ceVars, swVars, plVars>>

\* Lines 190-191: next_token = torch.gather(probs_idx, -1, next_token).
SM_TopPGather ==
    /\ sm_pc = "p_gather"
    /\ sm_out' = GatherIndex(sm_sel.idx, sm_draw)
    /\ sm_pc' = "done"
    /\ UNCHANGED <<sm_in, sm_sel, sm_w, sm_draw, sm_err>>
    /\ UNCHANGED <<ceVars, swVars, plVars>>

(***************************************************************************)
(* copy_state, swap_state                                                  *)
(*                                                                         *)
(* Tensors live in a heap: model.state_dict() refers to the model's own    *)
(* storage, copy_state makes new storage, load_state_dict copies values    *)
(* into the model's storage.  The state_dict holds tensors only.           *)
(***************************************************************************)
Names == {"w", "b"}

\* A key that is no tensor of the model.
OtherKey == "x"

Vals == 0..MaxVal

\* Addresses: the model's storage, then the storage copy_state allocates.
ModelAddr(n) == IF n = "w" THEN 1 ELSE 2

FreshAddr(n) == IF n = "w" THEN 3 ELSE 4

\* state.detach().to(device=device, dtype=dtype, copy=True): new storage.
CopyTensorAlias(addr, fresh) == addr

CopyTensor(addr, fresh) == fresh

\* copy_state on the dict model.state_dict(): {k: copy_state(v)}.
CopyState(sd) == [n \in DOMAIN sd |-> CopyTensor(sd[n], FreshAddr(n))]

\* The heap after copy_state: the new storage holds the values copied.
HeapAfterCopy(heap, sd) ==
    [a \in DOMAIN heap \cup {FreshAddr(n) : n \in DOMAIN sd} |->
        IF \E n \in DOMAIN sd : a = FreshAddr(n) /\ a \notin DOMAIN heap
        THEN heap[sd[CHOOSE n \in DOMAIN sd : a = FreshAddr(n)]]
        ELSE heap[a]]

\* load_state_dict copies, for every key the model has, the given value into
\* the model's own storage.
HeapAfterLoad(heap, model, given) ==
    [a \in DOMAIN heap |->
        IF \E n \in DOMAIN model \cap DOMAIN given : model[n] = a
        THEN given[CHOOSE n \in DOMAIN model \cap DOMAIN given : model[n] = a]
        ELSE heap[a]]

\* load_state_dict(strict=True) raises for missing or unexpected keys.
LoadOk(model, given, strict) == ~strict \/ DOMAIN given = DOMAIN model

\* The values of the tensors a state dict refers to.
ValuesOf(heap, sd) == [n \in DOMAIN sd |-> heap[sd[n]]]

SWInit ==
    /\ sw_pc = "enter"
    /\ sw_model = [n \in Names |-> ModelAddr(n)]
    /\ \E h \in [{ModelAddr(n) : n \in Names} -> Vals] :
         /\ sw_heap = h
         /\ sw_entry = [n \in Names |-> h[ModelAddr(n)]]
    /\ \E keys \in SUBSET (Names \cup {OtherKey}), strict \in BOOLEAN :
         \E v \in [keys -> Vals] : sw_arg = [vals |-> v, strict |-> strict]
    /\ sw_old = NoVal
    /\ sw_steps = 0
    /\ sw_exc = "none"

SWIdle ==
    /\ sw_pc = "idle"
    /\ sw_heap = NoVal
    /\ sw_model = NoVal
    /\ sw_arg = NoVal
    /\ sw_old = NoVal
    /\ sw_entry = NoVal
    /\ sw_steps = 0
    /\ sw_exc = "none"

\* Line 283: old_state = copy_state(model.state_dict()).
SW_Copy ==
    /\ sw_pc = "enter"
    /\ sw_old' = CopyState(sw_model)
    /\ sw_heap' = HeapAfterCopy(sw_heap, sw_model)
    /\ sw_pc' = "load"
    /\ UNCHANGED <<sw_model, sw_arg, sw_entry, sw_steps, sw_exc>>
    /\ UNCHANGED <<ceVars, smVars, plVars>>

\* Line 284: model.load_state_dict(state, **kwargs), outside the try block.
SW_Load ==
    /\ sw_pc = "load"
    /\ sw_heap' = HeapAfterLoad(sw_heap, sw_model, sw_arg.vals)
    /\ IF LoadOk(sw_model, sw_arg.vals, sw_arg.strict)
       THEN sw_pc' = "body" /\ sw_exc' = sw_exc
       ELSE sw_pc' = "raised_on_entry" /\ sw_exc' = "RuntimeError"
    /\ UNCHANGED <<sw_model, sw_arg, sw_old, sw_entry, sw_steps>>
    /\ UNCHANGED <<ceVars, smVars, plVars>>

\* Lines 285-286: the body of the with block writes a model tensor in place.
SW_BodyWrite ==
    /\ sw_pc = "body"
    /\ sw_steps < MaxBodySteps
    /\ \E n \in Names, v \in Vals :
         sw_heap' = [sw_heap EXCEPT ![sw_model[n]] = v]
    /\ sw_steps' = sw_steps + 1
    /\ UNCHANGED <<sw_pc, sw_model, sw_arg, sw_old, sw_entry, sw_exc>>
    /\ UNCHANGED <<ceVars, smVars, plVars>>

\* Line 286: the body completes normally.
SW_BodyReturn ==
    /\ sw_pc = "body"
    /\ sw_pc' = "finally"
    /\ UNCHANGED <<sw_heap, sw_model, sw_arg, sw_old, sw_entry, sw_steps, sw_exc>>
    /\ UNCHANGED <<ceVars, smVars, plVars>>

\* Line 286: the body raises; the exception is thrown into the generator.
SW_BodyRaise ==
    /\ sw_pc = "body"
    /\ sw_pc' = "finally"
    /\ sw_exc' = "BodyError"
    /\ UNCHANGED <<sw_heap, sw_model, sw_arg, sw_old, sw_entry, sw_steps>>
    /\ UNCHANGED <<ceVars, smVars, plVars>>

\* Lines 287-288: finally: model.load_state_dict(old_state); then the context
\* exits, re-raising the body's exception if there is one.
SW_Restore ==
    /\ sw_pc = "finally"
    /\ sw_heap' = HeapAfterLoad(sw_heap, sw_model, ValuesOf(sw_heap, sw_old))
    /\ sw_pc' = IF sw_exc = "none" THEN "exited" ELSE "raised"
    /\ UNCHANGED <<sw_model, sw_arg, sw_old, sw_entry, sw_steps, sw_exc>>
    /\ UNCHANGED <<ceVars, smVars, plVars>>

(***************************************************************************)
(* DummyPoolExecutor.submit, get_pool_executor                             *)
(***************************************************************************)
\* The methods of concurrent.futures.Future that set or read its outcome.
FutureAttrs ==
    {"set_result", "set_exception", "result", "exception", "done",
     "cancel", "cancelled", "running", "add_done_callback",
     "set_running_or_notify_cancel"}

\* Line 215: the attribute looked up on the Future in the except branch.
ExceptBranchAttr == "set_Exception"

\* Line 217: the attribute looked up on the Future in the else branch.
ElseBranchAttr == "set_result"

\* Exceptions func may raise that derive from Exception, and one that does not.
ExceptionKinds == {"ValueError", "KeyError"}

BaseOnlyKinds == {"KeyboardInterrupt"}

\* What a submitted func does: return a value, or raise.
FuncBehaviours ==
    {[does |-> "return", value |-> v] : v \in 0..1}
        \cup {[does |-> "raise", value |-> e] : e \in ExceptionKinds \cup BaseOnlyKinds}

\* Future(): pending, no result, no exception.
NewFuture == [state |-> "PENDING", result |-> NoVal, exception |-> NoVal]

\* get_pool_executor: lines 229-234.
ExecutorKind(num_workers, use_threads) ==
    IF num_workers = 0 THEN "dummy"
    ELSE IF use_threads THEN "thread" ELSE "process"

PLInit ==
    /\ pl_pc = "start"
    /\ pl_kind = NoVal
    /\ pl_call = NoVal
    /\ pl_future = NoVal
    /\ pl_log = <<>>

PLIdle ==
    /\ pl_pc = "idle"
    /\ pl_kind = NoVal
    /\ pl_call = NoVal
    /\ pl_future = NoVal
    /\ pl_log = <<>>

\* Lines 227-234: get_pool_executor(num_workers, mp_context, use_threads).
PL_GetExecutor ==
    /\ pl_pc = "start"
    /\ \E nw \in 0..MaxWorkers, use_threads \in BOOLEAN :
         pl_kind' = ExecutorKind(nw, use_threads)
    /\ pl_pc' = "ready"
    /\ UNCHANGED <<pl_call, pl_future, pl_log>>
    /\ UNCHANGED <<ceVars, smVars, swVars>>

\* Lines 210-211: submit(func, ...) on the DummyPoolExecutor: future = Future().
PL_Submit ==
    /\ pl_pc = "ready"
    /\ pl_kind = "dummy"
    /\ Len(pl_log) < MaxSubmits
    /\ \E f \in FuncBehaviours : pl_call' = f
    /\ pl_future' = NewFuture
    /\ pl_pc' = "try"
    /\ UNCHANGED <<pl_kind, pl_log>>
    /\ UNCHANGED <<ceVars, smVars, swVars>>

\* Lines 212-214: result = func(*args, **kwargs) inside try / except Exception.
PL_CallFunc ==
    /\ pl_pc = "try"
    /\ IF pl_call.does = "return"
       THEN pl_pc' = "else" /\ pl_log' = pl_log
       ELSE IF pl_call.value \in ExceptionKinds
            THEN pl_pc' = "except" /\ pl_log' = pl_log
            ELSE /\ pl_pc' = "ready"
                 /\ pl_log' = Append(pl_log,
                        [call |-> pl_call, returned |-> FALSE,
                         raised |-> pl_call.value, future |-> NoVal])
    /\ UNCHANGED <<pl_kind, pl_call, pl_future>>
    /\ UNCHANGED <<ceVars, smVars, swVars>>

\* Line 215: future.set_Exception(exc): the attribute lookup on the Future.
PL_Except ==
    /\ pl_pc = "except"
    /\ IF ExceptBranchAttr \in FutureAttrs
       THEN /\ pl_future' = [pl_future EXCEPT !.state = "FINISHED",
                                              !.exception = pl_call.value]
            /\ pl_pc' = "return"
            /\ pl_log' = pl_log
       ELSE /\ pl_future' = pl_future
            /\ pl_pc' = "ready"
            /\ pl_log' = Append(pl_log,
                   [call |-> pl_call, returned |-> FALSE,
                    raised |-> "AttributeError", future |-> NoVal])
    /\ UNCHANGED <<pl_kind, pl_call>>
    /\ UNCHANGED <<ceVars, smVars, swVars>>

\* Lines 216-217: else: future.set_result(result).
PL_Else ==
    /\ pl_pc = "else"
    /\ IF ElseBranchAttr \in FutureAttrs
       THEN /\ pl_future' = [pl_future EXCEPT !.state = "FINISHED",
                                              !.result = pl_call.value]
            /\ pl_pc' = "return"
            /\ pl_log' = pl_log
       ELSE /\ pl_future' = pl_future
            /\ pl_pc' = "ready"
            /\ pl_log' = Append(pl_log,
                   [call |-> pl_call, returned |-> FALSE,
                    raised |-> "AttributeError", future |-> NoVal])
    /\ UNCHANGED <<pl_kind, pl_call>>
    /\ UNCHANGED <<ceVars, smVars, swVars>>

\* Line 218: return future.
PL_Return ==
    /\ pl_pc = "return"
    /\ pl_log' = Append(pl_log,
           [call |-> pl_call, returned |-> TRUE,
            raised |-> NoVal, future |-> pl_future])
    /\ pl_pc' = "ready"
    /\ UNCHANGED <<pl_kind, pl_call, pl_future>>
    /\ UNCHANGED <<ceVars, smVars, swVars>>

(***************************************************************************)
(* Specifications                                                          *)
(***************************************************************************)
InitCE == CEInit /\ SMIdle /\ SWIdle /\ PLIdle

NextCE ==
    CE_AssertShapes \/ CE_Flatten \/ CE_Split \/ CE_Loop \/ CE_Finish

SpecCE == InitCE /\ [][NextCE]_vars

InitSample == SMInit /\ CEIdle /\ SWIdle /\ PLIdle

NextSample ==
    \/ SM_TopK \/ SM_TopKDraw \/ SM_TopKGather
    \/ SM_Sort \/ SM_Mask \/ SM_TopPDraw \/ SM_TopPGather

SpecSample == InitSample /\ [][NextSample]_vars

InitSwap == SWInit /\ CEIdle /\ SMIdle /\ PLIdle

NextSwap ==
    \/ SW_Copy \/ SW_Load \/ SW_BodyWrite
    \/ SW_BodyReturn \/ SW_BodyRaise \/ SW_Restore

SpecSwap == InitSwap /\ [][NextSwap]_vars

InitPool == PLInit /\ CEIdle /\ SMIdle /\ SWIdle

NextPool ==
    \/ PL_GetExecutor \/ PL_Submit \/ PL_CallFunc
    \/ PL_Except \/ PL_Else \/ PL_Return

SpecPool == InitPool /\ [][NextPool]_vars

(***************************************************************************)
(* Properties of cross_entropy (checked under SpecCE)                      *)
(***************************************************************************)
\* logits.shape[:-1], targets.shape and mask.shape are the same.
ShapesMatch == ce_in.lshape = ce_in.tshape /\ ce_in.mshape = ce_in.tshape

\* Every unmasked target is a class index.
UnmaskedTargetsInRange ==
    \A i \in 1..Len(ce_in.targets) :
        (i <= Len(ce_in.mask) /\ ce_in.mask[i]) => ce_in.targets[i] \in Classes

\* The call has got past flattening (safe_targets exists).
CEFlattened ==
    ce_pc \in {"split", "loop", "cat", "done"} \/ ce_err = "RuntimeError"

\* C1: with matching shapes, at every position where mask is False the target
\* is replaced by index 0 before the gather, the returned value is exactly 0,
\* and the call raises only if some unmasked target is out of range: a masked
\* target, in range or not, never makes it raise.
C1_MaskedPositionsZero ==
    ShapesMatch =>
        /\ CEFlattened =>
              \A i \in 1..Len(ce_in.mask) : ~ce_in.mask[i] => ce_safe[i] = 0
        /\ ce_pc = "done" =>
              \A i \in 1..Len(ce_in.mask) : ~ce_in.mask[i] => ce_out.data[i] = Zero
        /\ ce_pc = "error" => ~UnmaskedTargetsInRange

\* C1 witness: a call that returned with an out-of-range target at a masked
\* position and an unmasked position beside it.
C1_Witness ==
    /\ ce_pc = "done"
    /\ \E i, j \in 1..Len(ce_in.mask) :
         /\ ~ce_in.mask[i] /\ ce_in.targets[i] = Card /\ ce_out.data[i] = Zero
         /\ ce_in.mask[j] /\ ce_out.data[j] # Zero

\* C2: when logits.shape[:-1] # targets.shape or mask.shape # targets.shape the
\* call ends in the assertion error, with no flattening, chunking, gather or
\* log-sum-exp done and no result returned.
C2_ShapeMismatchFailsFirst ==
    ~ShapesMatch =>
        /\ ce_pc \in {"call", "error"}
        /\ ce_pc = "error" => ce_err = "AssertionError"
        /\ ce_flat = NoVal /\ ce_safe = NoVal
        /\ ce_pairs = <<>> /\ ce_chunks = <<>>
        /\ ce_out = NoVal

\* C2 witness: the mask alone has the wrong shape and the call has failed.
C2_Witness ==
    /\ ce_pc = "error" /\ ce_err = "AssertionError"
    /\ ce_in.lshape = ce_in.tshape
    /\ ce_in.mshape # ce_in.tshape
    /\ Prod(ce_in.mshape) = 1 /\ Prod(ce_in.tshape) > 1

\* C8: for a valid call of N >= 1 rows the logits and the sanitized targets are
\* cut into the same contiguous chunks, the concatenated chunk results are the
\* N row results in row order, and the returned tensor has the shape of
\* targets with, at each unmasked position, the value computed from the logits
\* row and the target of that position.
C8_ChunkedEqualsRowwise ==
    LET N == Prod(ce_in.tshape)
    IN  (ShapesMatch /\ UnmaskedTargetsInRange) =>
            /\ ce_pc # "error"
            /\ ce_pc \in {"loop", "cat", "done"} =>
                  /\ \A j \in 1..Len(ce_pairs) :
                        Len(ce_pairs[j][1]) = Len(ce_pairs[j][2])
                  /\ Concat([j \in 1..Len(ce_pairs) |-> ce_pairs[j][1]])
                        = ce_flat.logits
                  /\ Concat([j \in 1..Len(ce_pairs) |-> ce_pairs[j][2]])
                        = ce_safe
            /\ ce_pc \in {"loop", "cat", "done"} =>
                  Concat(ce_chunks) =
                      [i \in 1..Len(Concat(ce_chunks)) |->
                          <<RowCE(ce_in.logits[i], ce_safe[i], ce_in.clip)>>]
            /\ ce_pc \in {"cat", "done"} => Len(Concat(ce_chunks)) = N
            /\ ce_pc = "done" =>
                  /\ ce_out.shape = ce_in.tshape
                  /\ Len(ce_out.data) = N
                  /\ \A i \in 1..N : ce_in.mask[i] =>
                        ce_out.data[i] =
                            RowCE(ce_in.logits[i], ce_in.targets[i], ce_in.clip)

\* C8 witness: N = 5 rows, not divisible by 4, cut into chunks of 2, 2 and 1,
\* all unmasked, returned in the shape [1, 1, 5].
C8_Witness ==
    /\ ce_pc = "done"
    /\ ce_in.tshape = <<1, 1, 5>>
    /\ ce_in.clip = ClipNone
    /\ Len(ce_chunks) = 3 /\ Len(ce_chunks[3]) = 1
    /\ \A i \in 1..5 : ce_in.mask[i]
    /\ ce_out.data[4] # ce_out.data[5]

(***************************************************************************)
(* Properties of the sampling routines (checked under SpecSample)          *)
(***************************************************************************)
\* The sum of the sorted probabilities strictly before sorted position i.
SumBefore(i) == SeqSum(SubSeq(sm_sel.vals, 1, i - 1))

\* The sum of the sorted probabilities up to and including sorted position i.
SumThrough(i) == SeqSum(SubSeq(sm_sel.vals, 1, i))

\* sample_top_p has computed its mask and weights.
TopPMasked ==
    sm_in.op = "top_p" /\ sm_pc \in {"p_draw", "p_gather", "done", "error"}

\* Sorted position i can be sampled: it has nonzero weight after masking.
Kept(i) == sm_w.w[i] # NaN /\ sm_w.w[i][1] > 0

\* C3: for 1 <= k <= number of classes, whatever the draw, sample_top_k returns
\* a class index that top-k selected, and fewer than k classes have a strictly
\* higher probability than the returned class.
C3_TopKSupport ==
    (sm_in.op = "top_k" /\ sm_pc = "done") =>
        /\ sm_in.param \in 1..Len(sm_in.probs)
        /\ sm_out \in ClassesOf(sm_in.probs)
        /\ \E j \in 1..sm_in.param : sm_sel.idx[j] = sm_out
        /\ Cardinality({c \in ClassesOf(sm_in.probs) :
                sm_in.probs[c + 1] > sm_in.probs[sm_out + 1]}) < sm_in.param

\* C3 witness: k = 2 of 3 classes, and the class returned is not the local
\* position that was drawn.
C3_Witness ==
    /\ sm_in.op = "top_k" /\ sm_pc = "done"
    /\ sm_in.param = 2 /\ Len(sm_in.probs) = 3
    /\ sm_draw = 1 /\ sm_out # sm_draw

\* C4: in sample_top_p the row is sorted in descending order and the class at
\* sorted position i is zeroed iff the sum of the sorted probabilities strictly
\* before i is strictly greater than p; for p >= 0 the first position is not
\* zeroed and keeps nonzero weight; a sampled index is a class not zeroed.
C4_TopPMaskRule ==
    TopPMasked =>
        /\ \A i \in 1..(Len(sm_sel.vals) - 1) : sm_sel.vals[i] >= sm_sel.vals[i + 1]
        /\ \A i \in 1..Len(sm_sel.vals) :
              /\ sm_w.mask[i] <=> SumBefore(i) > sm_in.param
              /\ sm_w.mask[i] => ~Kept(i)
        /\ sm_in.param >= 0 => ~sm_w.mask[1] /\ Kept(1)
        /\ sm_pc = "done" =>
              /\ ~sm_w.mask[sm_draw + 1]
              /\ sm_out = sm_sel.idx[sm_draw + 1]
              /\ sm_in.probs[sm_out + 1] = sm_sel.vals[sm_draw + 1]

\* C4 witness: 0 <= p < 1, some class zeroed, and a class other than the top
\* one sampled.
C4_Witness ==
    /\ sm_in.op = "top_p" /\ sm_pc = "done"
    /\ sm_in.param >= 0 /\ sm_in.param < Denom
    /\ \E i \in 1..Len(sm_sel.vals) : sm_w.mask[i] /\ sm_sel.vals[i] > 0
    /\ sm_draw >= 1

\* C5 as stated: for p in [0, 1) no class that sample_top_p keeps lies after the
\* first sorted position at which the inclusive cumulative sum is >= p.
C5_KeptIsPrefixReachingP ==
    (TopPMasked /\ sm_in.param >= 0 /\ sm_in.param < Denom) =>
        \A i \in 1..Len(sm_sel.vals) :
            Kept(i) => ~\E j \in 1..(i - 1) : SumThrough(j) >= sm_in.param

\* C5 amended: for p in [0, 1) the classes that sample_top_p keeps are exactly
\* the sorted positions up to and including the first one at which the
\* inclusive cumulative sum is strictly greater than p.
C5_KeptIsPrefixExceedingP ==
    (TopPMasked /\ sm_in.param >= 0 /\ sm_in.param < Denom) =>
        /\ \E j \in 1..Len(sm_sel.vals) : SumThrough(j) > sm_in.param
        /\ \A i \in 1..Len(sm_sel.vals) :
              Kept(i) <=> ~\E j \in 1..(i - 1) : SumThrough(j) > sm_in.param

\* C5 witness: the inclusive cumulative sum equals p at a position, and the
\* class after it is kept and sampled.
C5_Witness ==
    /\ sm_in.op = "top_p" /\ sm_pc = "done"
    /\ sm_in.param > 0 /\ sm_in.param < Denom
    /\ sm_draw >= 1
    /\ SumThrough(sm_draw) = sm_in.param
    /\ Kept(sm_draw + 1)

\* The parameter is degenerate: k <= 0 or k > classes, p < 0 or p >= 1.
Degenerate ==
    \/ sm_in.op = "top_k" /\ (sm_in.param <= 0 \/ sm_in.param > Len(sm_in.probs))
    \/ sm_in.op = "top_p" /\ (sm_in.param < 0 \/ sm_in.param >= Denom)

\* C6 as stated: for a degenerate parameter the routine never returns a
\* sampled class index.
C6_DegenerateNeverReturns == Degenerate => sm_pc # "done"

\* C6 amended: sample_top_k with k < 0 or k > classes fails in torch.topk and
\* with k = 0 in the draw over an empty row; sample_top_p with p < 0 zeroes
\* every class and fails in the draw over a NaN row; none of them returns.
\* sample_top_p with p >= 1 zeroes nothing, does not fail, and returns a class
\* of nonzero probability.
C6_DegenerateOutcomes ==
    /\ (sm_in.op = "top_k" /\ (sm_in.param < 0 \/ sm_in.param > Len(sm_in.probs)))
          => sm_pc \in {"call", "error"}
    /\ (sm_in.op = "top_k" /\ sm_in.param = 0) =>
          /\ sm_pc \in {"call", "k_draw", "error"}
          /\ sm_pc = "k_draw" => sm_sel.vals = <<>>
    /\ (sm_in.op = "top_p" /\ sm_in.param < 0) =>
          /\ sm_pc \in {"call", "p_mask", "p_draw", "error"}
          /\ sm_pc \in {"p_draw", "error"} =>
                \A i \in 1..Len(sm_sel.vals) : sm_w.mask[i] /\ sm_w.w[i] = NaN
    /\ (sm_in.op = "top_p" /\ sm_in.param >= Denom) =>
          /\ sm_pc # "error"
          /\ sm_pc \in {"p_draw", "p_gather", "done"} =>
                \A i \in 1..Len(sm_sel.vals) : ~sm_w.mask[i]
          /\ sm_pc = "done" => sm_in.probs[sm_out + 1] > 0

\* C6 witness: sample_top_p with p = 1 has returned the class of lowest
\* probability of a row of three.
C6_Witness ==
    /\ sm_in.op = "top_p" /\ sm_in.param = Denom
    /\ sm_pc = "done"
    /\ Len(sm_in.probs) = 3 /\ sm_draw = 2

(***************************************************************************)
(* Properties of swap_state (checked under SpecSwap)                       *)
(***************************************************************************)
\* C9: once the load on entry has succeeded, the saved copy keeps the values
\* the model had on entry whatever the body writes, and after the context
\* exits the model has those values again, both when the body returns and
\* when it raises (the exception then propagates).
C9_SwapStateRestores ==
    /\ sw_pc \in {"body", "finally", "exited", "raised"} =>
          ValuesOf(sw_heap, sw_old) = sw_entry
    /\ sw_pc \in {"exited", "raised"} =>
          ValuesOf(sw_heap, sw_model) = sw_entry
    /\ sw_pc = "exited" => sw_exc = "none"
    /\ sw_pc = "raised" => sw_exc = "BodyError"
    /\ sw_exc = "BodyError" => sw_pc \in {"finally", "raised"}

\* C9 witness: the load changed the model, the body wrote to it and raised,
\* and the context has exited.
C9_Witness ==
    /\ sw_pc = "raised"
    /\ sw_steps >= 1
    /\ \E n \in Names : n \in DOMAIN sw_arg.vals /\ sw_arg.vals[n] # sw_entry[n]

(***************************************************************************)
(* Properties of DummyPoolExecutor.submit (checked under SpecPool)         *)
(***************************************************************************)
\* C10: every submit returns a completed Future: it holds func's value when
\* func returned, and func's exception when func raised an Exception (submit
\* itself does not raise then).
C10_SubmitReturnsCompletedFuture ==
    \A i \in 1..Len(pl_log) :
        LET e == pl_log[i]
        IN  /\ e.call.does = "return" =>
                  /\ e.returned
                  /\ e.future.state = "FINISHED"
                  /\ e.future.result = e.call.value
            /\ (e.call.does = "raise" /\ e.call.value \in ExceptionKinds) =>
                  /\ e.returned
                  /\ e.future.state = "FINISHED"
                  /\ e.future.exception = e.call.value

====
